---------------------------- MODULE Spec2Model ----------------------------
(***************************************************************************)
(* A model of the two pipelines of PaperFilter:                            *)
(*   - arxiv_scraper.py: scrape_all_papers pages through a listing and     *)
(*     extracts paper records with get_papers_from_page;                   *)
(*   - extract_links_and_abstracts.py: add_abstracts_to_html walks the     *)
(*     <dt>/<dd> pairs of a saved listing, fetches missing abstracts with  *)
(*     get_abstract, splices them into the tree and collects report rows.  *)
(*                                                                         *)
(* A parsed document is the list of sibling elements of the listing's <dl>.*)
(* Text is a sequence of tokens: the labels "Title:" and "Abstract:" are   *)
(* one token each, " " and "\n" are whitespace, anything else is a         *)
(* character.  An href is (origin, segment, id, version), standing for     *)
(* [https://arxiv.org]/<segment>/<id>[v<version>]; id stands for a         *)
(* \d+\.\d+ number.                                                        *)
(***************************************************************************)
EXTENDS Integers, Sequences, FiniteSets, TLC

\* ------------------------------------------------------------------ bounds
\* Longest free-form document (number of sibling elements).
MaxElems == 4
\* Listing pages the server may be asked for in one scrape.
MaxPages == 3

\* ------------------------------------------------------- program constants
\* arxiv_scraper.py: show = 50 (records per listing page).
show == 50
\* Minimum accepted length of a normalized title (len(title) < 5 rejects).
MinTitleLen == 5
\* time.sleep(1) between listing pages, in half seconds.
PageDelay == 2
\* time.sleep(0.5) between abstract fetches, in half seconds.
AbstractDelay == 1

\* ------------------------------------------------------------------- text
Whitespace == {" ", "\n"}
TitleLabel == "Title:"
AbstractLabel == "Abstract:"
\* The fallback abstract text of a report row, one token.
Placeholder == <<"(no abstract)">>

RECURSIVE LStrip(_)
LStrip(t) ==
    IF t # <<>> /\ Head(t) \in Whitespace THEN LStrip(Tail(t)) ELSE t

RECURSIVE RStrip(_)
RStrip(t) ==
    IF t # <<>> /\ t[Len(t)] \in Whitespace
    THEN RStrip(SubSeq(t, 1, Len(t) - 1))
    ELSE t

\* str.strip()
Strip(t) == RStrip(LStrip(t))

\* re.sub(label + r'\s*', '', t): every occurrence of the label goes, with
\* the whitespace that follows it.
RECURSIVE RemoveLabel(_, _)
RemoveLabel(t, label) ==
    IF t = <<>> THEN <<>>
    ELSE IF Head(t) = label THEN RemoveLabel(LStrip(Tail(t)), label)
    ELSE <<Head(t)>> \o RemoveLabel(Tail(t), label)

\* ' '.join(t.split()): runs of whitespace become one space, the ends go.
RECURSIVE Collapse(_)
Collapse(t) ==
    LET s == LStrip(t) IN
    IF s = <<>> THEN <<>>
    ELSE IF Tail(s) # <<>> /\ Head(Tail(s)) \in Whitespace
         THEN IF LStrip(Tail(s)) = <<>> THEN <<Head(s)>>
              ELSE <<Head(s), " ">> \o Collapse(LStrip(Tail(s)))
         ELSE <<Head(s)>> \o Collapse(Tail(s))

\* title = re.sub(r'Title:\s*', '', text).strip(); ' '.join(title.split())
NormalizeTitle(text) == Collapse(Strip(RemoveLabel(text, TitleLabel)))

\* re.sub(r'Abstract:\s*', '', text).strip()
CleanAbstract(text) == Strip(RemoveLabel(text, AbstractLabel))

\* `if not title or len(title) < 5: continue`
\* (variant: `<= 5`, which also drops a title of exactly 5 characters)
TitleRejected_Strict(title) == title = <<>> \/ Len(title) <= MinTitleLen
TitleRejected(title) == title = <<>> \/ Len(title) < MinTitleLen

\* ------------------------------------------------------------------ hrefs
Href(origin, seg, id, ver) == [origin |-> origin, seg |-> seg, id |-> id, ver |-> ver]
AbsHref(id) == Href(FALSE, "abs", id, 0)
PdfHref(id) == Href(FALSE, "pdf", id, 0)

\* re.compile(r'/abs/\d+\.\d+')
MatchesAbs(h) == h.seg = "abs"
\* re.compile(r'https://arxiv.org/html/\d+\.\d+v\d+')
MatchesHtmlFull(h) == h.origin /\ h.seg = "html" /\ h.ver > 0
\* re.compile(r'/html/\d+\.\d+')
MatchesHtmlRel(h) == h.seg = "html"
\* re.search(r'/(\d+\.\d+)', href).group(1)
CaptureId(h) == h.id

\* The least element of a set of indices, or 0: how find() and
\* find_next_sibling() report the first hit in document order, or None.
FirstIndex(S) == IF S = {} THEN 0 ELSE CHOOSE i \in S : \A j \in S : i <= j

\* dt.find('a', href=re.compile(r'/abs/\d+\.\d+'))
FindAbs(anchors) == FirstIndex({i \in DOMAIN anchors : MatchesAbs(anchors[i])})
\* dt.find('a', href=re.compile(r'https://arxiv.org/html/\d+\.\d+v\d+'))
FindHtmlFull(anchors) == FirstIndex({i \in DOMAIN anchors : MatchesHtmlFull(anchors[i])})
\* dt.find('a', href=re.compile(r'/html/\d+\.\d+'))
FindHtmlRel(anchors) == FirstIndex({i \in DOMAIN anchors : MatchesHtmlRel(anchors[i])})

\* f"https://arxiv.org/abs/{arxiv_id}"
AbsLink(id) == Href(TRUE, "abs", id, 0)
\* f"https://arxiv.org/html/{arxiv_id}v1"
DefaultHtmlLink(id) == Href(TRUE, "html", id, 1)

NoLink == [some |-> FALSE, href |-> AbsHref(0)]
SomeLink(h) == [some |-> TRUE, href |-> h]

\* The HTML link of a <dt>: the absolute versioned link, else the first
\* /html/ link, made absolute when it starts with '/'.
HtmlLinkOf(dt) ==
    LET full == FindHtmlFull(dt.anchors)
        rel  == FindHtmlRel(dt.anchors)
    IN  IF full # 0 THEN SomeLink(dt.anchors[full])
        ELSE IF rel # 0
             THEN IF ~dt.anchors[rel].origin
                  THEN SomeLink([dt.anchors[rel] EXCEPT !.origin = TRUE])
                  ELSE SomeLink(dt.anchors[rel])
             ELSE NoLink
\* -------------------------------------------------------------- documents
\* A child node of a <dd>'s <div class="meta">, or of the <dd> itself:
\*   "plain"     any other block (authors, comments, ...),
\*   "subjects"  <div class="list-subjects"> with content c,
\*   "wrap"      a block that contains a <div class="list-subjects"> with
\*               content c one level down,
\*   "abstract"  <div class="list-abstract"> whose get_text() is text.
Node(k, c, text) == [k |-> k, c |-> c, text |-> text]
PlainNode == Node("plain", 0, <<>>)
SubjectsNode(c) == Node("subjects", c, <<>>)
WrapNode(c) == Node("wrap", c, <<>>)

\* abstract_div: <span class="descriptor">Abstract:</span> then f" {abstract}"
AbstractNode(abstract) == Node("abstract", 0, <<AbstractLabel, " ">> \o abstract)

\* One sibling element of the listing: a marker <dt> with its anchors, a
\* detail <dd> (title block, fallback "Title:" descriptor span, metadata
\* region with its children, children appended after it) or anything else.
Elem(tag, anchors, hasTitle, title, hasSpan, span, hasMeta, meta, tail) ==
    [tag |-> tag, anchors |-> anchors, hasTitle |-> hasTitle, title |-> title,
     hasSpan |-> hasSpan, span |-> span, hasMeta |-> hasMeta, meta |-> meta,
     tail |-> tail]

DtElem(anchors) == Elem("dt", anchors, FALSE, <<>>, FALSE, <<>>, FALSE, <<>>, <<>>)
DdElem(hasTitle, title, hasSpan, span, hasMeta, meta, tail) ==
    Elem("dd", <<>>, hasTitle, title, hasSpan, span, hasMeta, meta, tail)
OtherElem == Elem("p", <<>>, FALSE, <<>>, FALSE, <<>>, FALSE, <<>>, <<>>)

DtKinds == {"plain", "full", "rel", "bad"}
Dt(kind, id) ==
    CASE kind = "plain" -> DtElem(<<AbsHref(id), PdfHref(id)>>)
      [] kind = "full"  -> DtElem(<<AbsHref(id), PdfHref(id), Href(TRUE, "html", id, 1)>>)
      [] kind = "rel"   -> DtElem(<<AbsHref(id), Href(FALSE, "html", id, 1)>>)
      [] kind = "bad"   -> DtElem(<<PdfHref(id)>>)

\* "Title: abcde" and friends.
TitleFive == <<TitleLabel, " ", "a", "b", "c", "d", "e">>
TitleFour == <<TitleLabel, " ", "a", "b", " ", "c">>
TitleMessy == <<"\n", TitleLabel, " ", " ", "a", "b", " ", "\n", "c", "d", "e", " ">>

DdKinds == {"ok", "short", "span", "nested", "twin", "nometa", "has", "hasempty"}
Dd(kind) ==
    CASE kind = "ok"       -> DdElem(TRUE, TitleFive, TRUE, TitleFive, TRUE,
                                     <<PlainNode, SubjectsNode(1)>>, <<>>)
      [] kind = "short"    -> DdElem(TRUE, TitleFour, FALSE, <<>>, TRUE,
                                     <<SubjectsNode(1), PlainNode>>, <<>>)
      [] kind = "span"     -> DdElem(FALSE, <<>>, TRUE, TitleMessy, TRUE, <<>>, <<>>)
      [] kind = "nested"   -> DdElem(TRUE, TitleMessy, FALSE, <<>>, TRUE,
                                     <<PlainNode, WrapNode(1)>>, <<>>)
      [] kind = "twin"     -> DdElem(TRUE, TitleFive, FALSE, <<>>, TRUE,
                                     <<WrapNode(1), PlainNode, SubjectsNode(1)>>, <<>>)
      [] kind = "nometa"   -> DdElem(TRUE, TitleFive, FALSE, <<>>, FALSE, <<>>, <<>>)
      [] kind = "has"      -> DdElem(TRUE, TitleMessy, FALSE, <<>>, TRUE,
                                     <<AbstractNode(<<"x">>), SubjectsNode(1)>>, <<>>)
      [] kind = "hasempty" -> DdElem(TRUE, TitleFive, FALSE, <<>>, FALSE, <<>>,
                                     <<Node("abstract", 0, <<>>)>>)

\* Free-form documents: every sequence of up to MaxElems elements drawn from
\* a marker with an identifier link, one without, a detail with a good
\* title, one with a short title, and an unrelated element.  A marker's
\* identifier is its position.
FreeKinds == {"dt", "dtbad", "dd", "ddshort", "p"}
FreeElem(kind, pos) ==
    CASE kind = "dt"      -> Dt("plain", pos)
      [] kind = "dtbad"   -> Dt("bad", pos)
      [] kind = "dd"      -> Dd("ok")
      [] kind = "ddshort" -> Dd("short")
      [] kind = "p"       -> OtherElem

FreeDocs ==
    UNION {{[i \in 1..n |-> FreeElem(ks[i], i)] : ks \in [1..n -> FreeKinds]} : n \in 0..MaxElems}

\* Two marker/detail pairs of every shape of marker and of detail.
PairDocs ==
    {<<Dt(k1, 1), Dd(k2), Dt("rel", 2), Dd(k3)>> : k1 \in DtKinds, k2 \in DdKinds, k3 \in DdKinds}

\* Three pairs, the first already carrying an abstract container.
TripleDocs ==
    {<<Dt("plain", 1), Dd("has"), Dt("full", 2), Dd(k2), Dt("rel", 3), Dd("ok")>> : k2 \in DdKinds}

Docs == FreeDocs \cup PairDocs \cup TripleDocs

\* A listing page of n well-formed pairs, identifiers first+1 .. first+n.
FullPage(n, first) ==
    [i \in 1..(2 * n) |-> IF i % 2 = 1 THEN Dt("full", first + (i + 1) \div 2) ELSE Dd("ok")]

\* ------------------------------------------------------------- extraction
\* dt.find_next_sibling('dd'): the first later sibling that is a <dd>.
find_next_sibling(doc, i) ==
    FirstIndex({j \in DOMAIN doc : j > i /\ doc[j].tag = "dd"})

\* soup.find_all('dt'), as positions in document order.
find_all_dt(doc) == SelectSeq([i \in 1..Len(doc) |-> i], LAMBDA i : doc[i].tag = "dt")

\* get_papers_from_page, lines 69-88: the title block, else the parent of a
\* "Title:" descriptor span.
ScrapeTitle(dd) ==
    IF dd.hasTitle THEN [found |-> TRUE, title |-> NormalizeTitle(dd.title)]
    ELSE IF dd.hasSpan THEN [found |-> TRUE, title |-> NormalizeTitle(dd.span)]
    ELSE [found |-> FALSE, title |-> <<>>]

\* Whether the scraper's loop body reaches papers.append for the <dt> at i.
ScrapeKeeps(doc, i) ==
    /\ FindAbs(doc[i].anchors) # 0
    /\ find_next_sibling(doc, i) # 0
    /\ ScrapeTitle(doc[find_next_sibling(doc, i)]).found
    /\ ~TitleRejected(ScrapeTitle(doc[find_next_sibling(doc, i)]).title)

ScrapeRecord(doc, i) ==
    [arxiv_id |-> CaptureId(doc[i].anchors[FindAbs(doc[i].anchors)]),
     title |-> ScrapeTitle(doc[find_next_sibling(doc, i)]).title]

\* The loop of get_papers_from_page over a parsed page.
ScrapeDoc(doc) ==
    LET kept == SelectSeq(find_all_dt(doc), LAMBDA i : ScrapeKeeps(doc, i))
    IN  [k \in 1..Len(kept) |-> ScrapeRecord(doc, kept[k])]

\* The <dt>/<dd> positions the scraper pairs up, in order.
ScrapePairs(doc) ==
    LET kept == SelectSeq(find_all_dt(doc), LAMBDA i : ScrapeKeeps(doc, i))
    IN  [k \in 1..Len(kept) |-> [dt |-> kept[k], dd |-> find_next_sibling(doc, kept[k])]]

\* A server response to a listing request: status "ok", "http_error" (a
\* non-2xx status, with whatever body came with it) or "timeout".
Response(status, doc) == [status |-> status, doc |-> doc]

\* session.get raises on a timeout or connection error.
GetRaises(resp) == resp.status = "timeout"
\* response.raise_for_status()
\* (variant: the status check left out)
RaiseForStatus_Missing(resp) == FALSE
RaiseForStatus(resp) == resp.status = "http_error"

\* get_papers_from_page: [] on a RequestException, else the parsed records.
get_papers_from_page(resp) ==
    IF GetRaises(resp) \/ RaiseForStatus(resp) THEN <<>> ELSE ScrapeDoc(resp.doc)

\* Whether extract_papers_from_html reaches papers.append for the <dt> at i.
ExtractKeeps(doc, i) ==
    /\ FindAbs(doc[i].anchors) # 0
    /\ find_next_sibling(doc, i) # 0
    /\ doc[find_next_sibling(doc, i)].hasTitle
    /\ ~TitleRejected(NormalizeTitle(doc[find_next_sibling(doc, i)].title))

ExtractRecord(doc, i) ==
    LET id == CaptureId(doc[i].anchors[FindAbs(doc[i].anchors)])
    IN  [arxiv_id |-> id, abs_link |-> AbsLink(id), html_link |-> HtmlLinkOf(doc[i]),
         title |-> NormalizeTitle(doc[find_next_sibling(doc, i)].title)]

extract_papers_from_html(doc) ==
    LET kept == SelectSeq(find_all_dt(doc), LAMBDA i : ExtractKeeps(doc, i))
    IN  [k \in 1..Len(kept) |-> ExtractRecord(doc, kept[k])]

\* The <dt>/<dd> positions the extractor pairs up, in order.
ExtractPairs(doc) ==
    LET kept == SelectSeq(find_all_dt(doc), LAMBDA i : ExtractKeeps(doc, i))
    IN  [k \in 1..Len(kept) |-> [dt |-> kept[k], dd |-> find_next_sibling(doc, kept[k])]]
\* ------------------------------------------------------------- enrichment
\* An optional string: None, or a text (possibly empty).
None == [some |-> FALSE, text |-> <<>>]
Some(text) == [some |-> TRUE, text |-> text]
\* Python truthiness of an optional string.
Truthy(abstract) == abstract.some /\ abstract.text # <<>>

\* A server response to an abstract-page request: the status, the kind of
\* <blockquote> the page holds ("classed": class="abstract"; "plain": no
\* such class; "none") and that block's text.
AbsResponse(status, block, text) == [status |-> status, block |-> block, text |-> text]

AbstractResponses ==
    {AbsResponse("timeout", "none", <<>>),
     AbsResponse("http_error", "classed", <<AbstractLabel, " ", "x">>),
     AbsResponse("ok", "none", <<>>),
     AbsResponse("ok", "classed", <<AbstractLabel, "\n">>),
     AbsResponse("ok", "classed", <<"\n", AbstractLabel, " ", "x", "\n", "y", " ">>),
     AbsResponse("ok", "plain", <<AbstractLabel, " ", "z">>),
     AbsResponse("ok", "plain", <<"z">>)}

\* get_abstract: None on a RequestException; the cleaned text of the
\* class="abstract" blockquote; else of a blockquote whose string contains
\* "Abstract"; else None.
get_abstract(resp) ==
    IF resp.status # "ok" THEN None
    ELSE IF resp.block = "classed" THEN Some(CleanAbstract(resp.text))
    ELSE IF resp.block = "plain" /\ \E n \in DOMAIN resp.text : resp.text[n] = AbstractLabel
         THEN Some(CleanAbstract(resp.text))
    ELSE None

\* dd.find('div', class_='list-abstract'): the first abstract container in
\* document order, inside the metadata region or after it.
ExistingAbstract(dd) ==
    LET inMeta == FirstIndex({n \in DOMAIN dd.meta : dd.meta[n].k = "abstract"})
        inTail == FirstIndex({n \in DOMAIN dd.tail : dd.tail[n].k = "abstract"})
    IN  IF dd.hasMeta /\ inMeta # 0 THEN Some(dd.meta[inMeta].text)
        ELSE IF inTail # 0 THEN Some(dd.tail[inTail].text)
        ELSE None

\* list.insert(n - 1, x) on a 1-based sequence: x lands before element n.
InsertBefore(seq, n, x) == SubSeq(seq, 1, n - 1) \o <<x>> \o SubSeq(seq, n, Len(seq))

\* Lines 230-239.  meta_div.find('div', class_='list-subjects') searches all
\* descendants; meta_div.contents.index(subjects_div) looks among the direct
\* children only, comparing by value, and raises ValueError on no match.
SpliceAbstract(dd, abstract) ==
    IF ~dd.hasMeta
    THEN [raised |-> FALSE, dd |-> [dd EXCEPT !.tail = Append(@, AbstractNode(abstract))]]
    ELSE LET found == FirstIndex({n \in DOMAIN dd.meta : dd.meta[n].k \in {"subjects", "wrap"}})
         IN  IF found = 0
             THEN [raised |-> FALSE, dd |-> [dd EXCEPT !.meta = Append(@, AbstractNode(abstract))]]
             ELSE LET subjects_div == SubjectsNode(dd.meta[found].c)
                      at == FirstIndex({n \in DOMAIN dd.meta : dd.meta[n] = subjects_div})
                  IN  IF at = 0
                      THEN [raised |-> TRUE, dd |-> dd]
                      ELSE [raised |-> FALSE,
                            dd |-> [dd EXCEPT !.meta = InsertBefore(@, at, AbstractNode(abstract))]]

\* Whether add_abstracts_to_html's loop body gets past its `continue`s for
\* the <dt> at i (lines 166-186): identifier link, a later <dd>, title block.
MergeKeeps(doc, i) ==
    /\ FindAbs(doc[i].anchors) # 0
    /\ find_next_sibling(doc, i) # 0
    /\ doc[find_next_sibling(doc, i)].hasTitle

\* 'abstract': abstract if abstract else "（未获取到摘要）"
\* (variant: the abstract as fetched, without the fallback)
ReportedAbstract_Raw(abstract) == abstract.text
ReportedAbstract(abstract) == IF Truthy(abstract) THEN abstract.text ELSE Placeholder

\* paper_data, lines 242-247.
PaperData(doc, i, abstract) ==
    LET id == CaptureId(doc[i].anchors[FindAbs(doc[i].anchors)])
        html_link == HtmlLinkOf(doc[i])
    IN  [title |-> NormalizeTitle(doc[find_next_sibling(doc, i)].title),
         html_link |-> IF html_link.some THEN html_link.href ELSE DefaultHtmlLink(id),
         abs_link |-> AbsLink(id),
         abstract |-> ReportedAbstract(abstract)]

\* `if not existing_abstract: time.sleep(0.5)`
\* (variant: an unconditional sleep)
SleepsAfter_Always(existing) == TRUE
SleepsAfter(existing) == ~existing

\* save_to_txt: one block per row; the abstract is printed as it is.
save_to_txt(rows) ==
    [n \in 1..Len(rows) |->
        [number |-> n, title |-> rows[n].title, html_link |-> rows[n].html_link,
         abs_link |-> rows[n].abs_link, body |-> rows[n].abstract]]

\* `if len(papers) < 50: break`
\* (variant: `< 49`)
IsLastPage_OffByOne(ps) == Len(ps) < show - 1
IsLastPage(ps) == Len(ps) < show

\* ------------------------------------------------------------------ state
VARIABLES
    mode,            \* which pipeline runs: "scrape" or "enrich"
    pc,              \* the position in the running function
    session,         \* requests.Session: "none", "open", "closed"
    log,             \* this invocation's fetches and sleeps, in order
    all_papers,      \* scrape_all_papers: the accumulator
    page, skip,      \* scrape_all_papers: page number and offset
    papers,          \* the records of the last extraction
    response,        \* the last listing response received
    results,         \* what each get_papers_from_page call returned, in order
    returned,        \* scrape_all_papers' return value
    html_file,       \* add_abstracts_to_html: the input document
    soup,            \* the parsed, mutable tree
    k,               \* index into dt_tags of the loop
    abstract,        \* the loop's local
    papers_data,     \* rows for the text report
    processed_count,
    outcomes,        \* per row: "existing", "absent", "empty" or "text"
    output_file,     \* the re-serialized tree
    digest,          \* the text report
    run,             \* 1, or 2 when the output of run 1 is processed again
    first_output     \* papers_data of run 1

vars == <<mode, pc, session, log, all_papers, page, skip, papers, response, results,
          returned, html_file, soup, k, abstract, papers_data, processed_count,
          outcomes, output_file, digest, run, first_output>>

scrapeVars == <<all_papers, page, skip, response, results, returned>>
enrichVars == <<html_file, soup, k, abstract, papers_data, processed_count, outcomes,
                output_file, digest, run, first_output>>

FetchEvent(what, arg) == [kind |-> "fetch", what |-> what, arg |-> arg]
SleepEvent(dur) == [kind |-> "sleep", what |-> "pause", arg |-> dur]
\* An abstract taken from the container already in the tree: no request.
ReadEvent(arg) == [kind |-> "read", what |-> "abstract", arg |-> arg]

Init ==
    /\ mode \in {"scrape", "enrich"}
    /\ html_file \in (IF mode = "enrich" THEN Docs ELSE {<<>>})
    /\ pc = "start"
    /\ session = "none"
    /\ log = <<>>
    /\ all_papers = <<>>
    /\ page = 1
    /\ skip = 0
    /\ papers = <<>>
    /\ response = Response("none", <<>>)
    /\ results = <<>>
    /\ returned = <<>>
    /\ soup = <<>>
    /\ k = 1
    /\ abstract = None
    /\ papers_data = <<>>
    /\ processed_count = 0
    /\ outcomes = <<>>
    /\ output_file = <<>>
    /\ digest = <<>>
    /\ run = 1
    /\ first_output = <<>>
\* --------------------------------------------------- scrape_all_papers
\* What the listing server may answer to the request at offset `first`.
PageResponses(first) ==
    {Response("timeout", <<>>), Response("http_error", FullPage(1, first))}
        \cup {Response("ok", d) : d \in Docs}
        \cup {Response("ok", FullPage(n, first)) : n \in {show - 1, show, show + 1}}

\* Lines 127-135.
StartScrape ==
    /\ mode = "scrape" /\ pc = "start"
    /\ all_papers' = <<>>
    /\ session' = "open"
    /\ page' = 1
    /\ skip' = 0
    /\ pc' = "fetch"
    /\ UNCHANGED <<mode, log, papers, response, results, returned, enrichVars>>

\* Lines 138-145: build the URL (the offset names it) and fetch the page.
FetchPage ==
    /\ mode = "scrape" /\ pc = "fetch"
    /\ page <= MaxPages
    /\ \E resp \in PageResponses(skip) :
        /\ response' = resp
        /\ papers' = get_papers_from_page(resp)
        /\ results' = Append(results, get_papers_from_page(resp))
    /\ log' = Append(log, FetchEvent("page", skip))
    /\ pc' = "got"
    /\ UNCHANGED <<mode, session, all_papers, page, skip, returned, enrichVars>>

\* Lines 147-160: stop on an empty page; else accumulate, and stop on a
\* short page or advance to the next one.
ProcessPage ==
    /\ mode = "scrape" /\ pc = "got"
    /\ IF papers = <<>>
       THEN /\ pc' = "close"
            /\ UNCHANGED <<all_papers, skip, page>>
       ELSE /\ all_papers' = all_papers \o papers
            /\ IF IsLastPage(papers)
               THEN /\ pc' = "close"
                    /\ UNCHANGED <<skip, page>>
               ELSE /\ skip' = skip + 50
                    /\ page' = page + 1
                    /\ pc' = "sleep"
    /\ UNCHANGED <<mode, session, log, papers, response, results, returned, enrichVars>>

\* Line 161: time.sleep(1).
SleepPage ==
    /\ mode = "scrape" /\ pc = "sleep"
    /\ log' = Append(log, SleepEvent(PageDelay))
    /\ pc' = "fetch"
    /\ UNCHANGED <<mode, session, scrapeVars, papers, enrichVars>>

\* Lines 163-164.
CloseScrape ==
    /\ mode = "scrape" /\ pc = "close"
    /\ session' = "closed"
    /\ returned' = all_papers
    /\ pc' = "done"
    /\ UNCHANGED <<mode, log, all_papers, page, skip, papers, response, results, enrichVars>>

\* ------------------------------------------------ add_abstracts_to_html
dt_tags == find_all_dt(soup)
\* The <dt> of the current iteration and the <dd> it is paired with.
CurDt == dt_tags[k]
CurDd == find_next_sibling(soup, CurDt)

\* Lines 147-163.
StartEnrich ==
    /\ mode = "enrich" /\ pc = "start"
    /\ papers' = extract_papers_from_html(html_file)
    /\ soup' = html_file
    /\ session' = "open"
    /\ papers_data' = <<>>
    /\ outcomes' = <<>>
    /\ processed_count' = 0
    /\ k' = 1
    /\ log' = <<>>
    /\ pc' = "loop"
    /\ UNCHANGED <<mode, scrapeVars, html_file, abstract, output_file, digest, run,
                   first_output>>

\* Lines 166-186: one of the loop's `continue`s.
SkipMarker ==
    /\ mode = "enrich" /\ pc = "loop"
    /\ k <= Len(dt_tags)
    /\ ~MergeKeeps(soup, CurDt)
    /\ k' = k + 1
    /\ UNCHANGED <<mode, pc, session, log, scrapeVars, papers, html_file, soup, abstract,
                   papers_data, processed_count, outcomes, output_file, digest, run,
                   first_output>>

\* Lines 207-211 and 242-252 when the <dd> already holds an abstract.
ReadExisting ==
    /\ mode = "enrich" /\ pc = "loop"
    /\ k <= Len(dt_tags)
    /\ MergeKeeps(soup, CurDt)
    /\ ExistingAbstract(soup[CurDd]).some
    /\ abstract' = Some(CleanAbstract(ExistingAbstract(soup[CurDd]).text))
    /\ papers_data' = Append(papers_data, PaperData(soup, CurDt, abstract'))
    /\ outcomes' = Append(outcomes, "existing")
    /\ processed_count' = processed_count + 1
    /\ log' = Append(log, ReadEvent(CaptureId(soup[CurDt].anchors[FindAbs(soup[CurDt].anchors)])))
    /\ IF SleepsAfter(TRUE)
       THEN pc' = "pause" /\ k' = k
       ELSE pc' = "loop" /\ k' = k + 1
    /\ UNCHANGED <<mode, session, scrapeVars, papers, html_file, soup, output_file,
                   digest, run, first_output>>

\* Lines 213-215: no abstract yet, call get_abstract.
FetchAbstract ==
    /\ mode = "enrich" /\ pc = "loop"
    /\ k <= Len(dt_tags)
    /\ MergeKeeps(soup, CurDt)
    /\ ~ExistingAbstract(soup[CurDd]).some
    /\ \E resp \in AbstractResponses : abstract' = get_abstract(resp)
    /\ log' = Append(log, FetchEvent("abstract", CaptureId(soup[CurDt].anchors[FindAbs(soup[CurDt].anchors)])))
    /\ pc' = "fetched"
    /\ UNCHANGED <<mode, session, scrapeVars, papers, html_file, soup, k, papers_data,
                   processed_count, outcomes, output_file, digest, run, first_output>>

\* Lines 217-252 after the fetch: splice the abstract in, when there is one
\* (an uncaught ValueError ends the function there), and append the row.
InsertAbstract ==
    /\ mode = "enrich" /\ pc = "fetched"
    /\ LET spliced == IF Truthy(abstract)
                      THEN SpliceAbstract(soup[CurDd], abstract.text)
                      ELSE [raised |-> FALSE, dd |-> soup[CurDd]]
       IN  IF spliced.raised
           THEN /\ pc' = "raised"
                /\ UNCHANGED <<soup, k, papers_data, processed_count, outcomes>>
           ELSE /\ soup' = [soup EXCEPT ![CurDd] = spliced.dd]
                /\ papers_data' = Append(papers_data, PaperData(soup, CurDt, abstract))
                /\ outcomes' = Append(outcomes,
                                      IF ~abstract.some THEN "absent"
                                      ELSE IF abstract.text = <<>> THEN "empty" ELSE "text")
                /\ processed_count' = processed_count + 1
                /\ IF SleepsAfter(FALSE)
                   THEN pc' = "pause" /\ k' = k
                   ELSE pc' = "loop" /\ k' = k + 1
    /\ UNCHANGED <<mode, session, log, scrapeVars, papers, html_file, abstract, output_file,
                   digest, run, first_output>>

\* Line 252: time.sleep(0.5).
SleepAbstract ==
    /\ mode = "enrich" /\ pc = "pause"
    /\ log' = Append(log, SleepEvent(AbstractDelay))
    /\ k' = k + 1
    /\ pc' = "loop"
    /\ UNCHANGED <<mode, session, scrapeVars, papers, html_file, soup, abstract, papers_data,
                   processed_count, outcomes, output_file, digest, run, first_output>>

\* Lines 254-268: close the session, write the tree and the text report.
FinishEnrich ==
    /\ mode = "enrich" /\ pc = "loop"
    /\ k > Len(dt_tags)
    /\ session' = "closed"
    /\ output_file' = soup
    /\ digest' = save_to_txt(papers_data)
    /\ pc' = "done"
    /\ UNCHANGED <<mode, log, scrapeVars, papers, html_file, soup, k, abstract, papers_data,
                   processed_count, outcomes, run, first_output>>

\* add_abstracts_to_html is called again, on the file the first call wrote.
Rerun ==
    /\ mode = "enrich" /\ pc = "done" /\ run = 1
    /\ html_file' = output_file
    /\ first_output' = papers_data
    /\ run' = 2
    /\ pc' = "start"
    /\ UNCHANGED <<mode, session, log, scrapeVars, papers, soup, k, abstract, papers_data,
                   processed_count, outcomes, output_file, digest>>

Next ==
    \/ StartScrape
    \/ FetchPage
    \/ ProcessPage
    \/ SleepPage
    \/ CloseScrape
    \/ StartEnrich
    \/ SkipMarker
    \/ ReadExisting
    \/ FetchAbstract
    \/ InsertAbstract
    \/ SleepAbstract
    \/ FinishEnrich
    \/ Rerun

Spec == Init /\ [][Next]_vars

\* ----------------------------------------------------------------- claims
RECURSIVE Flatten(_)
Flatten(lists) == IF lists = <<>> THEN <<>> ELSE Head(lists) \o Flatten(Tail(lists))

RECURSIVE SumLen(_)
SumLen(lists) == IF lists = <<>> THEN 0 ELSE Len(Head(lists)) + SumLen(Tail(lists))

\* C1: in scrape_all_papers a page of fewer than 50 records is the last
\* page requested (every earlier page held at least 50), there are as many
\* requests as pages received, and the list returned is the concatenation,
\* in order, of the records of all pages received.
C1_ShortPageEndsPagination ==
    mode = "scrape" =>
        /\ \A n \in 1..(Len(results) - 1) : Len(results[n]) >= show
        /\ Cardinality({n \in DOMAIN log : log[n].kind = "fetch"}) = Len(results)
        /\ pc = "done" => /\ returned = Flatten(results)
                          /\ Len(returned) = SumLen(results)

\* A scrape that ended on a short third page after two full ones.
C1_Witness ==
    /\ mode = "scrape" /\ pc = "done"
    /\ Len(results) = 3
    /\ Len(results[3]) \in 1..(show - 1)
    /\ Len(returned) > 2 * show

\* C2: a failed fetch (timeout, non-2xx status) yields an empty page; after
\* an empty page the loop ends without raising, with no further request and
\* the accumulator untouched, and that accumulator is what is returned.
C2_EmptyPageEndsPagination ==
    [][/\ (mode = "scrape" /\ pc = "got" /\ (papers = <<>> \/ response.status # "ok"))
            => (pc' = "close" /\ all_papers' = all_papers /\ log' = log /\ results' = results)
       /\ (mode = "scrape" /\ pc = "close")
            => (pc' = "done" /\ returned' = all_papers /\ log' = log /\ results' = results)]_vars

\* A scrape that returned two pages' records after the third request timed out.
C2_Witness ==
    /\ mode = "scrape" /\ pc = "done"
    /\ response.status = "timeout"
    /\ Len(results) = 3
    /\ Len(returned) >= 2 * show

\* C3: a second run of add_abstracts_to_html, on the document the first run
\* wrote, fetches nothing and ends with the same rows as the first run.
C3_RerunFetchesNothing ==
    (mode = "enrich" /\ run = 2 /\ pc # "start") =>
        /\ \A n \in DOMAIN log : log[n].kind # "fetch"
        /\ pc = "done" => papers_data = first_output

\* C4: no row has an empty abstract, a row whose get_abstract call returned
\* None carries the placeholder, and no block of the text report has an
\* empty body.
C4_NoEmptyAbstract ==
    /\ \A n \in DOMAIN papers_data :
        /\ papers_data[n].abstract # <<>>
        /\ outcomes[n] = "absent" => papers_data[n].abstract = Placeholder
    /\ \A n \in DOMAIN digest : digest[n].body # <<>>

\* A finished run whose report holds a row for a failed fetch and a row for
\* a fetch that returned an empty abstract.
C4_Witness ==
    /\ mode = "enrich" /\ pc = "done"
    /\ \E n \in DOMAIN outcomes : outcomes[n] = "absent"
    /\ \E n \in DOMAIN outcomes : outcomes[n] = "empty"
    /\ Len(digest) = Len(outcomes)

\* Every <dt> of the document carries an identifier link and is directly
\* followed by a <dd> with a title block of at least 5 normalized characters.
AllPairsWellFormed(doc) ==
    \A i \in DOMAIN doc :
        doc[i].tag = "dt" =>
            /\ \E a \in DOMAIN doc[i].anchors : MatchesAbs(doc[i].anchors[a])
            /\ i + 1 \in DOMAIN doc
            /\ doc[i + 1].tag = "dd"
            /\ doc[i + 1].hasTitle
            /\ Len(NormalizeTitle(doc[i + 1].title)) >= 5

\* The identifier and title of the n-th pair of a document of well-formed pairs.
PairIdTitle(doc, n) ==
    LET i == find_all_dt(doc)[n]
        a == CHOOSE x \in DOMAIN doc[i].anchors :
                /\ MatchesAbs(doc[i].anchors[x])
                /\ \A y \in 1..(x - 1) : ~MatchesAbs(doc[i].anchors[y])
    IN  <<CaptureId(doc[i].anchors[a]), NormalizeTitle(doc[i + 1].title)>>

IsCompleteFor(recs, doc) ==
    /\ Len(recs) = Len(find_all_dt(doc))
    /\ \A n \in DOMAIN recs : <<recs[n].arxiv_id, recs[n].title>> = PairIdTitle(doc, n)

\* C5: from a document whose markers all belong to well-formed pairs, both
\* extractors yield one record per pair, in document order, with the pair's
\* identifier and normalized title.
C5_ExtractionComplete ==
    /\ (mode = "scrape" /\ pc = "got" /\ response.status = "ok"
            /\ AllPairsWellFormed(response.doc))
        => IsCompleteFor(papers, response.doc)
    /\ (mode = "enrich" /\ pc # "start" /\ AllPairsWellFormed(html_file))
        => IsCompleteFor(papers, html_file)

\* Two well-formed pairs with different titles, extracted from a saved listing.
C5_Witness ==
    /\ mode = "enrich" /\ pc = "loop"
    /\ AllPairsWellFormed(html_file)
    /\ Len(papers) = 2
    /\ papers[1].title # papers[2].title

\* Whether the <dd> of a pair is the marker's own: no other marker stands
\* between them (elements that are neither <dt> nor <dd> do not count).
OwnDetail(doc, pair) == \A j \in (pair.dt + 1)..(pair.dd - 1) : doc[j].tag # "dt"

\* C6: every record comes from a marker and the detail element that follows
\* it with no other marker in between, so no detail element gives its title
\* to two records and no record joins one marker's identifier to another
\* pair's detail element.
C6_OnlyAdjacentPairs ==
    /\ (mode = "enrich" /\ pc # "start") =>
        /\ Len(papers) = Len(ExtractPairs(html_file))
        /\ \A n \in DOMAIN ExtractPairs(html_file) :
            OwnDetail(html_file, ExtractPairs(html_file)[n])
        /\ \A n, m \in DOMAIN ExtractPairs(html_file) :
            n # m => ExtractPairs(html_file)[n].dd # ExtractPairs(html_file)[m].dd
    /\ (mode = "scrape" /\ pc = "got" /\ response.status = "ok") =>
        /\ Len(papers) = Len(ScrapePairs(response.doc))
        /\ \A n \in DOMAIN ScrapePairs(response.doc) :
            OwnDetail(response.doc, ScrapePairs(response.doc)[n])
        /\ \A n, m \in DOMAIN ScrapePairs(response.doc) :
            n # m => ScrapePairs(response.doc)[n].dd # ScrapePairs(response.doc)[m].dd

\* C7: whenever a pipeline invocation has ended, normally or by an error,
\* its session is closed; and a fetch is only issued on an open session.
C7_SessionClosedOnEveryExit ==
    [][/\ pc' \in {"done", "raised"} => session' = "closed"
       /\ (Len(log') > Len(log) /\ log'[Len(log')].kind = "fetch") => session = "open"]_vars

\* C8: the rows add_abstracts_to_html appends match, one for one and in
\* order, the records extract_papers_from_html returned for the same
\* document (title, abstract-page link, and HTML link where the extractor
\* found one), and the processed count never exceeds the extracted count.
C8_MergeMatchesExtractor ==
    (mode = "enrich" /\ pc # "start") =>
        /\ processed_count <= Len(papers)
        /\ Len(papers_data) <= Len(papers)
        /\ \A n \in DOMAIN papers_data :
            n \in DOMAIN papers =>
                /\ papers_data[n].title = papers[n].title
                /\ papers_data[n].abs_link = papers[n].abs_link
                /\ papers[n].html_link.some => papers_data[n].html_link = papers[n].html_link.href
        /\ pc = "done" => Len(papers_data) = Len(papers)

\* C9: in the log of an invocation every fetch but the last is directly
\* followed by its pause (1 s after a listing page, 0.5 s after an abstract
\* page), and a read of an existing abstract container is never followed by
\* a pause.
C9_PauseBetweenFetches ==
    \A n \in DOMAIN log :
        /\ (log[n].kind = "fetch" /\ n < Len(log)) =>
            log[n + 1] = SleepEvent(IF log[n].what = "page" THEN PageDelay ELSE AbstractDelay)
        /\ (log[n].kind = "read" /\ n < Len(log)) => log[n + 1].kind # "sleep"
        /\ log[n].kind = "sleep" => (n > 1 /\ log[n - 1].kind = "fetch")

\* An enrichment that fetched, paused, fetched again, and read an existing
\* abstract container.
C9_Witness ==
    /\ mode = "enrich"
    /\ \E n \in DOMAIN log : log[n].kind = "read" /\ n < Len(log)
    /\ Cardinality({n \in DOMAIN log : log[n].kind = "fetch"}) >= 2

\* Whether `after` is `before` with x inserted at exactly one position.
OneInserted(before, after, x) ==
    \E n \in 1..(Len(before) + 1) : after = InsertBefore(before, n, x)

\* C10: when get_abstract returned an abstract for a detail element without
\* an abstract container, the step does not raise, changes no other element,
\* and adds exactly one container to that element: directly before the
\* subjects block of the metadata region if there is one (at any depth),
\* else at the end of the metadata region, else at the end of the element.
C10_InsertionPosition ==
    [][(mode = "enrich" /\ pc = "fetched" /\ Truthy(abstract)) =>
        LET dd == soup[CurDd]
            new == AbstractNode(abstract.text)
        IN  /\ pc' # "raised"
            /\ \A j \in DOMAIN soup : j # CurDd => soup'[j] = soup[j]
            /\ IF ~dd.hasMeta
               THEN soup'[CurDd] = [dd EXCEPT !.tail = Append(@, new)]
               ELSE IF \A n \in DOMAIN dd.meta : dd.meta[n].k \notin {"subjects", "wrap"}
               THEN soup'[CurDd] = [dd EXCEPT !.meta = Append(@, new)]
               ELSE /\ soup'[CurDd].tail = dd.tail
                    /\ OneInserted(dd.meta, soup'[CurDd].meta, new)
                    /\ \E n \in 1..Len(dd.meta) :
                        /\ soup'[CurDd].meta[n] = new
                        /\ soup'[CurDd].meta[n + 1].k \in {"subjects", "wrap"}]_vars
=============================================================================
